---- MODULE Spec2Model ----
(***************************************************************************)
(* The chat view (MyLayout) of the client and the backend it talks to.    *)
(* Client state is the React state of MyLayout; every asynchronous        *)
(* function invocation is a frame (sendMessage) or a call record           *)
(* (fetchChats, loadChat, createChat) that carries the values its closure  *)
(* captured.  Text is a sequence of code points, a stream body a sequence  *)
(* of bytes.  A request and its answer are one step: the backend handles   *)
(* the request at the moment the client applies the response; answers to   *)
(* concurrent requests arrive in any order.                                *)
(* The router location, the AuthProvider token and the localStorage        *)
(* entries 'token' and 'roles' are the session.  When the location         *)
(* changes the element tree is rebuilt: the state of an unmounted MyLayout *)
(* is gone and the answers to its requests still in flight have no effect, *)
(* so its frames and call records are dropped with it; the same holds for  *)
(* AuthPage.                                                               *)
(***************************************************************************)
EXTENDS Integers, Sequences, FiniteSets, Bags, TLC

VARIABLES
  chats,         \* useState([])    : sequence of [id, title]
  currentId,     \* useState(null)  : NoId or a conversation id
  messages,      \* useState([])    : the Thread
  loadingChats,  \* useState(false)
  streaming,     \* useState(false)
  error,         \* useState('')
  mePending,     \* the mount effect still awaits GET /users/me
  ex,            \* sendMessage invocations, one frame per slot
  calls,         \* bag of in-flight fetchChats / loadChat / createChat calls
  srvChats,      \* backend: conversations of the user, newest first
  srvMsgs,       \* backend: stored messages per conversation id
  sends,         \* number of sendMessage invocations so far
  ops,           \* number of user events so far
  route,         \* router: current location path
  lsToken,       \* localStorage holds 'token'
  lsRoles,       \* localStorage 'roles': the stored JSON, "none" if absent
  ctxToken,      \* AuthProvider: useState token is non-null
  auth,          \* AuthPage: its useState values
  authCalls,     \* AuthPage: handler invocations waiting for an answer
  docs,          \* Docs: its useState values
  docCalls,      \* Docs: listDocs requests waiting for an answer
  con,           \* ChatConsole: its useState values
  conCalls,      \* ChatConsole: requests waiting for an answer
  srvReplies     \* backend: the replies stored per chat of the console

vars == <<chats, currentId, messages, loadingChats, streaming, error,
          mePending, ex, calls, srvChats, srvMsgs, sends, ops,
          route, lsToken, lsRoles, ctxToken, auth, authCalls,
          docs, docCalls, con, conCalls, srvReplies>>

----------------------------------------------------------------------------
(* Bounds *)
MaxChats == 2
MaxOps == 2
MaxSlots == 2

(* Program constants *)
TitleLen == 48
NoId == 0
Replacement == 65533

Slots == 1..MaxSlots
ChatIds == 1..MaxChats

(* Inputs *)
LongText == [i \in 1..(TitleLen + 1) |-> IF i <= TitleLen THEN 108 ELSE 33]
Inputs == {<<>>, <<32, 9>>, <<104>>, <<32, 104, 10>>}
LongInputs == {<<104>>, LongText}
Texts == {<<104>>}
Replies == {<<97>>, <<195, 169>>}
NewChatTitle == <<78, 101, 119, 32, 99, 104, 97, 116>>
StoredTitle == <<79>>
Titles == {<<32, 82>>}
\* Title the backend gives a conversation when its first exchange is stored
AutoTitle(text) == <<84>> \o text
StoredThread ==
  <<[role |-> "user", content |-> <<(<<113>>)>>],
    [role |-> "assistant", content |-> <<(<<114>>)>>]>>
StoredThreadB ==
  <<[role |-> "user", content |-> <<(<<115>>)>>],
    [role |-> "assistant", content |-> <<(<<116>>)>>]>>

----------------------------------------------------------------------------
(* Pure helpers *)

Min(a, b) == IF a < b THEN a ELSE b

\* Variant: the text is used whole
SliceAll(s, n) == s

\* String.prototype.slice(0, n)
Slice(s, n) == SubSeq(s, 1, Min(n, Len(s)))

\* TextDecoder('utf-8').decode(bytes), no stream option: the decoder is
\* reset on every call and an unfinished sequence at the end of the input
\* is emitted as U+FFFD.
RECURSIVE Utf8(_, _, _, _, _, _, _, _)
Utf8(bs, i, cp, needed, seen, lo, hi, out) ==
  IF i > Len(bs)
  THEN IF needed # 0 THEN Append(out, Replacement) ELSE out
  ELSE LET b == bs[i] IN
    IF needed = 0
    THEN IF b <= 127 THEN Utf8(bs, i + 1, 0, 0, 0, 128, 191, Append(out, b))
         ELSE IF b >= 194 /\ b <= 223
           THEN Utf8(bs, i + 1, b % 32, 1, 0, 128, 191, out)
         ELSE IF b >= 224 /\ b <= 239
           THEN Utf8(bs, i + 1, b % 16, 2, 0,
                     IF b = 224 THEN 160 ELSE 128,
                     IF b = 237 THEN 159 ELSE 191, out)
         ELSE IF b >= 240 /\ b <= 244
           THEN Utf8(bs, i + 1, b % 8, 3, 0,
                     IF b = 240 THEN 144 ELSE 128,
                     IF b = 244 THEN 143 ELSE 191, out)
         ELSE Utf8(bs, i + 1, 0, 0, 0, 128, 191, Append(out, Replacement))
    ELSE IF b < lo \/ b > hi
         THEN Utf8(bs, i, 0, 0, 0, 128, 191, Append(out, Replacement))
         ELSE IF seen + 1 = needed
           THEN Utf8(bs, i + 1, 0, 0, 0, 128, 191,
                     Append(out, cp * 64 + (b - 128)))
           ELSE Utf8(bs, i + 1, cp * 64 + (b - 128), needed, seen + 1,
                     128, 191, out)

Decode(bs) == Utf8(bs, 1, 0, 0, 0, 128, 191, <<>>)

UserMsg(text) == [role |-> "user", content |-> <<text>>]
AssistantMsg(text) == [role |-> "assistant", content |-> <<text>>]

\* White space and line terminators, as String.prototype.trim sees them
IsSpace(c) ==
  c \in {9, 10, 11, 12, 13, 32, 160, 5760, 8232, 8233, 8239, 8287, 12288,
         65279} \cup (8192..8202)

RECURSIVE TrimStart(_)
TrimStart(s) ==
  IF s # <<>> /\ IsSpace(Head(s)) THEN TrimStart(Tail(s)) ELSE s

RECURSIVE TrimEnd(_)
TrimEnd(s) ==
  IF s # <<>> /\ IsSpace(s[Len(s)])
  THEN TrimEnd(SubSeq(s, 1, Len(s) - 1))
  ELSE s

\* Variant: the input is used as typed
TrimOff(s) == s

\* String.prototype.trim
Trim(s) == TrimEnd(TrimStart(s))

\* Variant: every chunk adds a message of its own
ApplyChunkAppend(prev, assistantText) ==
  Append(prev, AssistantMsg(assistantText))

\* setMessages(prev => { copy = [...prev]; copy[copy.length - 1] = ...})
\* On an empty array the write goes to index -1 and no element appears.
ApplyChunk(prev, assistantText) ==
  IF Len(prev) = 0 THEN prev
  ELSE [prev EXCEPT ![Len(prev)] = AssistantMsg(assistantText)]

\* Variant: the composer is never disabled
ComposerAlwaysEnabled == TRUE

\* <ChatInput disabled={streaming} />
ComposerEnabled == ~streaming

----------------------------------------------------------------------------
\* Backend: the rows with the title of conversation id replaced
Retitle(rows, id, title) ==
  [i \in 1..Len(rows) |->
     IF rows[i].id = id THEN [rows[i] EXCEPT !.title = title] ELSE rows[i]]

(* Frames and calls *)

IdleFrame ==
  [pc |-> "idle", outcome |-> "none", text |-> <<>>, cur |-> NoId,
   id |-> NoId, base |-> <<>>, acc |-> <<>>, rest |-> <<>>, reply |-> <<>>,
   dist |-> FALSE, nCreate |-> 0, nStream |-> 0, nRefresh |-> 0]

Active(e) == ex[e].pc \in {"creating", "requesting", "reading"}
Ended(e) == ex[e].pc = "ended"

Call(op, id, cur, title, frame) ==
  [op |-> op, id |-> id, cur |-> cur, title |-> title, frame |-> frame]

Put(b, c) == b (+) SetToBag({c})
Take(b, c) == b (-) SetToBag({c})
Pending == BagToSet(calls)

\* Every frame other than `self` sees the Thread or the selection changed
\* under it.
Disturb(exs, self) ==
  [e \in Slots |->
     IF e # self /\ exs[e].pc # "idle"
     THEN [exs[e] EXCEPT !.dist = TRUE] ELSE exs[e]]

----------------------------------------------------------------------------
(* Routes of App; MyLayout is the element of "/chat" *)
Protected == {"/chat", "/admin"}

\* ProtectedRoute: if (!token) return <Navigate to="/" replace />
ProtectedRouteTarget == IF ~ctxToken THEN "/" ELSE "none"

\* Variant: MyLayout has no guard of its own
LayoutGuardOff == "none"

\* MyLayout: if (!token) navigate('/auth', { replace: true })
LayoutGuardTarget == IF ~lsToken THEN "/auth" ELSE "none"

\* JSON.stringify(roles) as stored under 'roles'
RolesJson(roles) ==
  IF roles = {"admin"} THEN "admin"
  ELSE IF roles = {"user"} THEN "user"
  ELSE IF roles = {"admin", "user"} THEN "admin,user"
  ELSE "[]"

\* JSON.parse(localStorage.getItem('roles') || '[]')
ParseRoles(json) ==
  IF json = "admin" THEN {"admin"}
  ELSE IF json = "user" THEN {"user"}
  ELSE IF json = "admin,user" THEN {"admin", "user"}
  ELSE {}

\* Variant: the dashboard looks at the token only
AdminGuardNoRoles == IF ~lsToken THEN "/auth" ELSE "none"

\* AdminDashboard: no token -> '/auth'; roles without 'admin' -> '/chat'
AdminGuardTarget ==
  IF ~lsToken THEN "/auth"
  ELSE IF "admin" \notin ParseRoles(lsRoles) THEN "/chat"
  ELSE "none"

\* Where the element rendered at path r navigates to, "none" if it stays
RedirectTarget(r) ==
  IF r = "/" THEN "none"
  ELSE IF r \notin Protected THEN "/"
  ELSE IF ProtectedRouteTarget # "none" THEN ProtectedRouteTarget
  ELSE IF r = "/chat" THEN LayoutGuardTarget
  ELSE AdminGuardTarget

\* MyLayout is rendered and stays
LayoutMounted == route = "/chat" /\ RedirectTarget("/chat") = "none"

\* A step of the mounted MyLayout: location and session are left alone
InLayout ==
  /\ LayoutMounted
  /\ UNCHANGED <<route, lsToken, lsRoles, ctxToken, auth, authCalls>>
  /\ UNCHANGED <<docs, docCalls, con, conCalls, srvReplies>>

\* Docs' useState defaults; `last` records the latest user event
DocsDefaults ==
  [loading |-> TRUE, error |-> "", items |-> <<>>, total |-> 0, q |-> "",
   tag |-> "", page |-> 1, last |-> "init"]

\* ChatConsole's useState defaults (ids are numbers, 0 for ""); `last`
\* records the latest user event
ConsoleDefaults ==
  [users |-> <<>>, selectedUser |-> 0, chats |-> <<>>, selectedChat |-> 0,
   messages |-> <<>>, sending |-> FALSE, replyText |-> <<>>, last |-> "init"]

\* The users the backend lists, and the chats it stores for each
ConUsers == <<1, 2>>
ConChatsOf(u) == IF u = 1 THEN <<11>> ELSE <<21>>
ConChatIds == {11, 21}

\* AuthPage's useState defaults
AuthDefaults ==
  [mode |-> "login", username |-> "", email |-> "", password |-> "",
   confirmPassword |-> "", loading |-> FALSE, error |-> "", success |-> "",
   code |-> <<>>, newPw |-> <<>>, newPw2 |-> <<>>]

\* The location becomes r; the element tree is rebuilt, a MyLayout that
\* stays starts with its useState defaults and its mount effect pending.
GoTo(r) ==
  /\ route' = r
  /\ loadingChats' = FALSE
  /\ streaming' = FALSE
  /\ error' = ""
  /\ ex' = [e \in Slots |-> IdleFrame]
  /\ calls' = EmptyBag
  /\ auth' = AuthDefaults
  /\ authCalls' = EmptyBag
  /\ UNCHANGED <<docs, docCalls, con, conCalls, srvReplies>>

\* Backend rows at the start: none, one conversation, two conversations
NoChats == <<>>
OneChat == <<[id |-> 1, title |-> StoredTitle]>>
TwoChats == <<[id |-> 2, title |-> StoredTitle],
              [id |-> 1, title |-> StoredTitle]>>

\* MyLayout's useState defaults, the backend holding rows
LayoutInit(rows) ==
  /\ chats = <<>>
  /\ currentId = NoId
  /\ messages = <<>>
  /\ loadingChats = FALSE
  /\ streaming = FALSE
  /\ error = ""
  /\ ex = [e \in Slots |-> IdleFrame]
  /\ calls = EmptyBag
  /\ srvChats = rows
  /\ srvMsgs = [i \in ChatIds |->
                  IF i = 1 /\ Len(rows) >= 1 THEN StoredThread
                  ELSE IF i = 2 /\ Len(rows) >= 2 THEN StoredThreadB
                  ELSE <<>>]
  /\ sends = 0
  /\ ops = 0
  /\ auth = AuthDefaults
  /\ authCalls = EmptyBag
  /\ docs = DocsDefaults
  /\ docCalls = EmptyBag
  /\ con = ConsoleDefaults
  /\ conCalls = EmptyBag
  /\ srvReplies = [c \in ConChatIds |-> <<>>]

\* The session right after a login with roles r: AuthPage has stored the
\* token and the roles and navigated to '/admin' or '/chat'
SessionInit(r) ==
  /\ lsToken = TRUE
  /\ ctxToken = TRUE
  /\ lsRoles = r
  /\ route = IF r = "admin" THEN "/admin" ELSE "/chat"
  /\ mePending = (r # "admin")

Init ==
  /\ \E rows \in {NoChats, OneChat} : LayoutInit(rows)
  /\ \E r \in {"user", "admin"} : SessionInit(r)

----------------------------------------------------------------------------
(* Mount effect: after GET /users/me settles, fetchChats() of the first    *)
(* render runs; its closure holds currentId = null.                        *)
MeSettled ==
  /\ InLayout
  /\ mePending
  /\ mePending' = FALSE
  /\ loadingChats' = TRUE
  /\ calls' = Put(calls, Call("fetchChats", NoId, NoId, <<>>, 0))
  /\ UNCHANGED <<chats, currentId, messages, streaming, error, ex,
                 srvChats, srvMsgs, sends, ops>>

(* Variant: the first row is selected but its Thread is not loaded *)
FetchChatsNoLoad(c) ==
  /\ InLayout
  /\ c.op = "fetchChats"
  /\ LET data == srvChats IN
       /\ chats' = data
       /\ calls' = Take(calls, c)
       /\ IF c.cur = NoId /\ Len(data) > 0
          THEN /\ currentId' = data[1].id
               /\ UNCHANGED <<messages, ex>>
          ELSE UNCHANGED <<currentId, messages, ex>>
  /\ loadingChats' = FALSE
  /\ UNCHANGED <<streaming, error, mePending, srvChats, srvMsgs, sends, ops>>

(* Variant: the returned rows are added to the rows already held *)
FetchChatsAppend(c) ==
  /\ InLayout
  /\ c.op = "fetchChats"
  /\ LET data == srvChats IN
       /\ chats' = chats \o data
       /\ IF c.cur = NoId /\ Len(data) > 0
          THEN /\ currentId' = data[1].id
               /\ messages' = <<>>
               /\ calls' = Put(Take(calls, c),
                               Call("loadChat", data[1].id, NoId, <<>>, 0))
               /\ ex' = Disturb(ex, 0)
          ELSE /\ calls' = Take(calls, c)
               /\ UNCHANGED <<currentId, messages, ex>>
  /\ loadingChats' = FALSE
  /\ UNCHANGED <<streaming, error, mePending, srvChats, srvMsgs, sends, ops>>

(* fetchChats, GET /chats answers ok with data; c.cur is the currentId of *)
(* the render whose fetchChats was called.                                 *)
FetchChatsOk(c) ==
  /\ InLayout
  /\ c.op = "fetchChats"
  /\ LET data == srvChats IN
       /\ chats' = data
       /\ IF c.cur = NoId /\ Len(data) > 0
          THEN /\ currentId' = data[1].id
               /\ messages' = <<>>
               /\ calls' = Put(Take(calls, c),
                               Call("loadChat", data[1].id, NoId, <<>>, 0))
               /\ ex' = Disturb(ex, 0)
          ELSE /\ calls' = Take(calls, c)
               /\ UNCHANGED <<currentId, messages, ex>>
  /\ loadingChats' = FALSE
  /\ UNCHANGED <<streaming, error, mePending, srvChats, srvMsgs, sends, ops>>

(* fetchChats, catch *)
FetchChatsFail(c) ==
  /\ InLayout
  /\ c.op = "fetchChats"
  /\ calls' = Take(calls, c)
  /\ error' = "Failed to load chats"
  /\ loadingChats' = FALSE
  /\ UNCHANGED <<chats, currentId, messages, streaming, mePending, ex,
                 srvChats, srvMsgs, sends, ops>>

(* Sidebar: click on a list entry -> loadChat(c.id).  The list is rendered *)
(* only while loadingChats is false.                                       *)
ClickChat(i) ==
  /\ InLayout
  /\ ~loadingChats
  /\ i \in 1..Len(chats)
  /\ ops < MaxOps
  /\ ops' = ops + 1
  /\ currentId' = chats[i].id
  /\ messages' = <<>>
  /\ calls' = Put(calls, Call("loadChat", chats[i].id, NoId, <<>>, 0))
  /\ ex' = Disturb(ex, 0)
  /\ UNCHANGED <<chats, loadingChats, streaming, error, mePending,
                 srvChats, srvMsgs, sends>>

\* setChats(prev => prev.map(c => (c.id === id ? { ...c, title } : c)))
Renamed(rows, id, title) ==
  [i \in 1..Len(rows) |->
     IF rows[i].id = id THEN [rows[i] EXCEPT !.title = title] ELSE rows[i]]

(* Sidebar: double click on a list entry.  The two clicks of the gesture  *)
(* each run loadChat(c.id); then prompt() returns t and, when t.trim() is *)
(* not empty, renameChat(c.id, t.trim()) is called.                       *)
DoubleClickChat(i, t) ==
  /\ InLayout
  /\ ~loadingChats
  /\ i \in 1..Len(chats)
  /\ ops < MaxOps
  /\ ops' = ops + 1
  /\ currentId' = chats[i].id
  /\ messages' = <<>>
  /\ LET load == Call("loadChat", chats[i].id, NoId, <<>>, 0)
         loads == Put(Put(calls, load), load)
     IN calls' = IF Trim(t) = <<>> THEN loads
                 ELSE Put(loads, Call("renameChat", chats[i].id, NoId,
                                      Trim(t), 0))
  /\ ex' = Disturb(ex, 0)
  /\ UNCHANGED <<chats, loadingChats, streaming, error, mePending,
                 srvChats, srvMsgs, sends>>

(* Variant: the new title is shown although the request failed *)
RenameChatFailApplies(c) ==
  /\ InLayout
  /\ c.op = "renameChat"
  /\ calls' = Take(calls, c)
  /\ chats' = Renamed(chats, c.id, c.title)
  /\ UNCHANGED <<currentId, messages, loadingChats, streaming, error,
                 mePending, ex, srvChats, srvMsgs, sends, ops>>

(* renameChat, catch: console.error only *)
RenameChatFail(c) ==
  /\ InLayout
  /\ c.op = "renameChat"
  /\ calls' = Take(calls, c)
  /\ UNCHANGED <<chats, currentId, messages, loadingChats, streaming, error,
                 mePending, ex, srvChats, srvMsgs, sends, ops>>

(* renameChat, POST /chat/rename answers ok: the backend has stored the   *)
(* title and the list entry with that id takes it.                        *)
RenameChatOk(c) ==
  /\ InLayout
  /\ c.op = "renameChat"
  /\ calls' = Take(calls, c)
  /\ srvChats' = Retitle(srvChats, c.id, c.title)
  /\ chats' = Renamed(chats, c.id, c.title)
  /\ UNCHANGED <<currentId, messages, loadingChats, streaming, error,
                 mePending, ex, srvMsgs, sends, ops>>

(* Variant: the loaded messages are appended to the Thread *)
LoadChatMerge(c) ==
  /\ InLayout
  /\ c.op = "loadChat"
  /\ c.id \in ChatIds
  /\ messages' = messages \o srvMsgs[c.id]
  /\ calls' = Take(calls, c)
  /\ ex' = Disturb(ex, 0)
  /\ UNCHANGED <<chats, currentId, loadingChats, streaming, error, mePending,
                 srvChats, srvMsgs, sends, ops>>

(* loadChat, response ok: setMessages(await res.json()) *)
LoadChatOk(c) ==
  /\ InLayout
  /\ c.op = "loadChat"
  /\ c.id \in ChatIds
  /\ messages' = srvMsgs[c.id]
  /\ calls' = Take(calls, c)
  /\ ex' = Disturb(ex, 0)
  /\ UNCHANGED <<chats, currentId, loadingChats, streaming, error, mePending,
                 srvChats, srvMsgs, sends, ops>>

(* loadChat, catch *)
LoadChatFail(c) ==
  /\ InLayout
  /\ c.op = "loadChat"
  /\ error' = "Failed to load conversation"
  /\ calls' = Take(calls, c)
  /\ UNCHANGED <<chats, currentId, messages, loadingChats, streaming,
                 mePending, ex, srvChats, srvMsgs, sends, ops>>

(* Sidebar: New chat -> createChat() with the default title *)
NewChat ==
  /\ InLayout
  /\ ops < MaxOps
  /\ ops' = ops + 1
  /\ calls' = Put(calls, Call("createChat", NoId, NoId, NewChatTitle, 0))
  /\ UNCHANGED <<chats, currentId, messages, loadingChats, streaming, error,
                 mePending, ex, srvChats, srvMsgs, sends>>

\* Backend, POST /chat/new: the row it inserts and returns as {id, title}
NewRow(title) == [id |-> Len(srvChats) + 1, title |-> title]

(* createChat, POST /chat/new answers ok; when sendMessage awaited it     *)
(* (c.frame # 0) the exchange goes on in the same turn: the user bubble   *)
(* is appended and POST /chat/stream is issued.                            *)
CreateChatOk(c) ==
  /\ InLayout
  /\ c.op = "createChat"
  /\ Len(srvChats) < MaxChats
  /\ LET data == NewRow(c.title) IN
       /\ srvChats' = <<data>> \o srvChats
       /\ chats' = <<[id |-> data.id, title |-> data.title]>> \o chats
       /\ currentId' = data.id
       /\ calls' = Take(calls, c)
       /\ IF c.frame = 0
          THEN /\ messages' = <<>>
               /\ ex' = Disturb(ex, 0)
          ELSE /\ messages' = <<UserMsg(ex[c.frame].text)>>
               /\ ex' = Disturb([ex EXCEPT ![c.frame].pc = "requesting",
                                           ![c.frame].id = data.id,
                                           ![c.frame].nStream = @ + 1],
                                c.frame)
  /\ UNCHANGED <<loadingChats, streaming, error, mePending, srvMsgs, sends,
                 ops>>

(* Variant: sendMessage goes on with the null id instead of stopping *)
CreateChatFailGoesOn(c) ==
  /\ InLayout
  /\ c.op = "createChat"
  /\ error' = "Failed to create chat"
  /\ calls' = Take(calls, c)
  /\ IF c.frame = 0
     THEN UNCHANGED <<messages, ex>>
     ELSE /\ messages' = Append(messages, UserMsg(ex[c.frame].text))
          /\ ex' = Disturb([ex EXCEPT ![c.frame].pc = "requesting",
                                      ![c.frame].nStream = @ + 1], c.frame)
  /\ UNCHANGED <<chats, currentId, loadingChats, streaming, mePending,
                 srvChats, srvMsgs, sends, ops>>

(* createChat, catch: returns null; sendMessage then stops the exchange *)
CreateChatFail(c) ==
  /\ InLayout
  /\ c.op = "createChat"
  /\ error' = "Failed to create chat"
  /\ calls' = Take(calls, c)
  /\ IF c.frame = 0
     THEN UNCHANGED <<streaming, ex>>
     ELSE /\ streaming' = FALSE
          /\ ex' = [ex EXCEPT ![c.frame].pc = "ended",
                              ![c.frame].outcome = "createFailed"]
  /\ UNCHANGED <<chats, currentId, messages, loadingChats, mePending,
                 srvChats, srvMsgs, sends, ops>>

\* The slot a new sendMessage invocation runs in
FreeSlots == {e \in Slots : ex[e].pc \in {"idle", "ended"}}
NextSlot == CHOOSE e \in FreeSlots : \A f \in FreeSlots : e <= f

(* Composer: sendMessage(text), up to its first await *)
SendMessage(text) ==
  /\ InLayout
  /\ ComposerEnabled
  /\ ops < MaxOps
  /\ ops' = ops + 1
  /\ FreeSlots # {}
  /\ sends' = sends + 1
  /\ error' = ""
  /\ streaming' = TRUE
  /\ LET e == NextSlot
         f == [IdleFrame EXCEPT !.text = text, !.cur = currentId,
                                !.id = currentId, !.base = messages]
     IN IF currentId = NoId
        THEN /\ ex' = [ex EXCEPT ![e] = [f EXCEPT !.pc = "creating",
                                                  !.nCreate = 1]]
             /\ calls' = Put(calls, Call("createChat", NoId, NoId,
                                         Slice(text, TitleLen), e))
             /\ UNCHANGED messages
        ELSE /\ ex' = Disturb([ex EXCEPT ![e] = [f EXCEPT !.pc = "requesting",
                                                          !.nStream = 1]], e)
             /\ messages' = Append(messages, UserMsg(text))
             /\ UNCHANGED calls
  /\ UNCHANGED <<chats, currentId, loadingChats, mePending, srvChats, srvMsgs>>

(* ChatInput.send: t = text.trim(); if (!t) return; onSend(t) *)
ChatInputSend(raw) ==
  LET t == Trim(raw) IN
    IF t = <<>>
    THEN /\ InLayout
         /\ ComposerEnabled
         /\ ops < MaxOps
         /\ ops' = ops + 1
         /\ UNCHANGED <<chats, currentId, messages, loadingChats, streaming,
                        error, mePending, ex, calls, srvChats, srvMsgs, sends>>
    ELSE SendMessage(t)

(* POST /chat/stream answers ok with a body: the backend stores the       *)
(* exchange, the client appends the assistant placeholder.                 *)
StreamOk(e) ==
  /\ InLayout
  /\ ex[e].pc = "requesting"
  /\ \E reply \in Replies :
       /\ srvMsgs' = [srvMsgs EXCEPT ![ex[e].id] =
                        @ \o <<UserMsg(ex[e].text), AssistantMsg(Decode(reply))>>]
       /\ ex' = Disturb([ex EXCEPT ![e].pc = "reading", ![e].reply = reply,
                                   ![e].rest = reply], e)
  /\ srvChats' = IF ex[e].id \in ChatIds /\ srvMsgs[ex[e].id] = <<>>
                 THEN Retitle(srvChats, ex[e].id, AutoTitle(ex[e].text))
                 ELSE srvChats
  /\ messages' = Append(messages, AssistantMsg(<<>>))
  /\ UNCHANGED <<chats, currentId, loadingChats, streaming, error, mePending,
                 calls, sends, ops>>

(* Variant: the placeholder is appended before the status is looked at *)
StreamNotOkPlaceholder(e) ==
  /\ InLayout
  /\ ex[e].pc = "requesting"
  /\ error' = "Error streaming response"
  /\ streaming' = FALSE
  /\ messages' = Append(messages, AssistantMsg(<<>>))
  /\ ex' = Disturb([ex EXCEPT ![e].pc = "ended", ![e].outcome = "notOk"], e)
  /\ UNCHANGED <<chats, currentId, loadingChats, mePending, calls,
                 srvChats, srvMsgs, sends, ops>>

(* !res.ok || !res.body *)
StreamNotOk(e) ==
  /\ InLayout
  /\ ex[e].pc = "requesting"
  /\ error' = "Error streaming response"
  /\ streaming' = FALSE
  /\ ex' = [ex EXCEPT ![e].pc = "ended", ![e].outcome = "notOk"]
  /\ UNCHANGED <<chats, currentId, messages, loadingChats, mePending, calls,
                 srvChats, srvMsgs, sends, ops>>

(* fetch() rejects: nothing in sendMessage catches it *)
StreamThrow(e) ==
  /\ InLayout
  /\ ex[e].pc = "requesting"
  /\ ex' = [ex EXCEPT ![e].pc = "ended", ![e].outcome = "fetchThrew"]
  /\ UNCHANGED <<chats, currentId, messages, loadingChats, streaming, error,
                 mePending, calls, srvChats, srvMsgs, sends, ops>>

(* reader.read() yields the next n bytes of the body *)
ReadChunk(e) ==
  /\ InLayout
  /\ ex[e].pc = "reading"
  /\ \E n \in 1..Len(ex[e].rest) :
       LET chunk == Decode(SubSeq(ex[e].rest, 1, n))
           assistantText == ex[e].acc \o chunk
       IN /\ ex' = Disturb([ex EXCEPT ![e].acc = assistantText,
                              ![e].rest = SubSeq(@, n + 1, Len(@))], e)
          /\ messages' = ApplyChunk(messages, assistantText)
  /\ UNCHANGED <<chats, currentId, loadingChats, streaming, error, mePending,
                 calls, srvChats, srvMsgs, sends, ops>>

(* Variant: the refresh is issued twice at the end of the stream *)
ReadDoneTwice(e) ==
  /\ InLayout
  /\ ex[e].pc = "reading"
  /\ ex[e].rest = <<>>
  /\ loadingChats' = TRUE
  /\ calls' = Put(Put(calls, Call("fetchChats", NoId, ex[e].cur, <<>>, 0)),
                  Call("fetchChats", NoId, ex[e].cur, <<>>, 0))
  /\ streaming' = FALSE
  /\ ex' = [ex EXCEPT ![e].pc = "ended", ![e].outcome = "done",
                      ![e].nRefresh = @ + 2]
  /\ UNCHANGED <<chats, currentId, messages, error, mePending, srvChats,
                 srvMsgs, sends, ops>>

(* Variant: the stream ends without the list refresh *)
ReadDoneNoRefresh(e) ==
  /\ InLayout
  /\ ex[e].pc = "reading"
  /\ ex[e].rest = <<>>
  /\ streaming' = FALSE
  /\ ex' = [ex EXCEPT ![e].pc = "ended", ![e].outcome = "done"]
  /\ UNCHANGED <<chats, currentId, messages, loadingChats, error, mePending,
                 calls, srvChats, srvMsgs, sends, ops>>

(* reader.read() reports done: fetchChats(); setStreaming(false) *)
ReadDone(e) ==
  /\ InLayout
  /\ ex[e].pc = "reading"
  /\ ex[e].rest = <<>>
  /\ loadingChats' = TRUE
  /\ calls' = Put(calls, Call("fetchChats", NoId, ex[e].cur, <<>>, 0))
  /\ streaming' = FALSE
  /\ ex' = [ex EXCEPT ![e].pc = "ended", ![e].outcome = "done",
                      ![e].nRefresh = @ + 1]
  /\ UNCHANGED <<chats, currentId, messages, error, mePending, srvChats,
                 srvMsgs, sends, ops>>

(* reader.read() rejects: nothing in sendMessage catches it *)
ReadThrow(e) ==
  /\ InLayout
  /\ ex[e].pc = "reading"
  /\ ex' = [ex EXCEPT ![e].pc = "ended", ![e].outcome = "readThrew"]
  /\ UNCHANGED <<chats, currentId, messages, loadingChats, streaming, error,
                 mePending, calls, srvChats, srvMsgs, sends, ops>>

(* MyLayout.handleLogout: the stored token and roles are removed, list,  *)
(* Thread and selection are emptied, and the location becomes '/auth',    *)
(* which unmounts MyLayout.                                               *)
HandleLogout ==
  /\ LayoutMounted
  /\ ops < MaxOps
  /\ ops' = ops + 1
  /\ lsToken' = FALSE
  /\ lsRoles' = "none"
  /\ chats' = <<>>
  /\ messages' = <<>>
  /\ currentId' = NoId
  /\ mePending' = FALSE
  /\ GoTo("/auth")
  /\ UNCHANGED <<ctxToken, srvChats, srvMsgs, sends>>

(* The element rendered at the current location navigates away:          *)
(* ProtectedRoute, the guard effect of MyLayout or AdminDashboard, or the *)
(* catch-all route.                                                       *)
Redirect ==
  /\ RedirectTarget(route) # "none"
  /\ GoTo(RedirectTarget(route))
  /\ chats' = <<>>
  /\ messages' = <<>>
  /\ currentId' = NoId
  /\ mePending' = (RedirectTarget(route) = "/chat"
                     /\ RedirectTarget("/chat") = "none")
  /\ UNCHANGED <<lsToken, lsRoles, ctxToken, srvChats, srvMsgs, sends, ops>>

(* The user opens path r in the address bar: the page is loaded anew and  *)
(* AuthProvider takes its token from localStorage.                        *)
EnterUrl(r) ==
  /\ r \in Protected
  /\ ops < MaxOps
  /\ ops' = ops + 1
  /\ ctxToken' = lsToken
  /\ GoTo(r)
  /\ chats' = <<>>
  /\ messages' = <<>>
  /\ currentId' = NoId
  /\ mePending' = (r = "/chat" /\ lsToken)
  /\ UNCHANGED <<lsToken, lsRoles, srvChats, srvMsgs, sends>>

(* The user moves in the session history to an entry of path r: the       *)
(* location changes without a page load.                                  *)
PopState(r) ==
  /\ r \in Protected
  /\ r # route
  /\ ops < MaxOps
  /\ ops' = ops + 1
  /\ GoTo(r)
  /\ chats' = <<>>
  /\ messages' = <<>>
  /\ currentId' = NoId
  /\ mePending' = (r = "/chat" /\ RedirectTarget("/chat") = "none")
  /\ UNCHANGED <<lsToken, lsRoles, ctxToken, srvChats, srvMsgs, sends>>

(***************************************************************************)
(* AuthPage.  A handler that awaits a request is one record of authCalls   *)
(* from its start to its answer; the record keeps what the request was     *)
(* built from (the mode of the form, the e-mail, the code).                *)
(* State setters act on the component's current state when the answer      *)
(* arrives; setters called in one handler are batched, the last value set  *)
(* for a state winning.                                                    *)
(***************************************************************************)

\* Most handler invocations of AuthPage awaiting an answer at a time
MaxAuthCalls == 1

\* Values typed into the fields
Names == {"", "u"}
Emails == {"", "e"}
Passwords == {"", "p"}
Confirms == {"", "p", "q"}
CodeA == <<1, 2, 3, 4, 5, 6>>
Codes == {<<>>, CodeA}
Pw7 == <<1, 2, 3, 4, 5, 6, 7>>
Pw8 == <<1, 2, 3, 4, 5, 6, 7, 8>>
NewPws == {<<>>, Pw7, Pw8}

\* Bodies of GET /users/me
Mes ==
  {[hasRoles |-> FALSE, roles |-> {}, is_admin |-> TRUE],
   [hasRoles |-> FALSE, roles |-> {}, is_admin |-> FALSE],
   [hasRoles |-> TRUE, roles |-> {"user"}, is_admin |-> FALSE],
   [hasRoles |-> TRUE, roles |-> {"admin", "user"}, is_admin |-> FALSE],
   [hasRoles |-> TRUE, roles |-> {}, is_admin |-> TRUE]}

\* me.roles ?? (me.is_admin ? ['admin'] : ['user'])
RolesOf(me) ==
  IF me.hasRoles THEN me.roles
  ELSE IF me.is_admin THEN {"admin"} ELSE {"user"}

\* AuthPage is rendered; nothing of the chat view changes
InAuth ==
  /\ route = "/"
  /\ UNCHANGED <<chats, currentId, messages, loadingChats, streaming, error,
                 mePending, ex, calls, srvChats, srvMsgs, sends, ops>>
  /\ UNCHANGED <<docs, docCalls, con, conCalls, srvReplies>>

\* ... and neither the session nor the location changes
AuthStays == InAuth /\ UNCHANGED <<route, lsToken, lsRoles, ctxToken>>

\* The fields the form of mode m shows
Visible(m) ==
  IF m = "login" THEN {"username", "password"}
  ELSE IF m = "signup"
    THEN {"username", "email", "password", "confirmPassword"}
  ELSE IF m = "forgot" THEN {"email"}
  ELSE IF m = "verify" THEN {"code"}
  ELSE {"newPw", "newPw2"}

\* What can be typed into field f
Typed(f) ==
  IF f = "username" THEN Names
  ELSE IF f = "email" THEN Emails
  ELSE IF f = "password" THEN Passwords
  ELSE IF f = "confirmPassword" THEN Confirms
  ELSE IF f = "code" THEN Codes
  ELSE NewPws

\* switchMode(next) applied to component state a
Cleared(a, next) ==
  [a EXCEPT !.mode = next, !.error = "", !.success = "", !.username = "",
            !.email = "", !.password = "", !.confirmPassword = "",
            !.code = <<>>, !.newPw = <<>>, !.newPw2 = <<>>]

\* A handler invocation that awaits its request, with what the request
\* carries of the fields
AuthCall(op) ==
  [op |-> op,
   mode |-> IF op = "submit" THEN auth.mode ELSE "",
   email |-> IF op # "submit" THEN auth.email ELSE "",
   code |-> IF op \in {"verify", "reset"} THEN auth.code ELSE <<>>]

AuthPending == BagToSet(authCalls)

AuthRoom == BagCardinality(authCalls) < MaxAuthCalls

\* The tabs, 'Forgot password?' and 'Back to sign in'
SwitchMode(next) ==
  /\ AuthStays
  /\ \/ next \in {"login", "signup"}
     \/ next = "forgot" /\ auth.mode = "login"
  /\ auth' = Cleared(auth, next)
  /\ UNCHANGED authCalls

\* onChange of a field of the form shown
TypeField(f, v) ==
  /\ AuthStays
  /\ f \in Visible(auth.mode)
  /\ v \in Typed(f)
  /\ auth[f] # v
  /\ auth' = [auth EXCEPT ![f] = v]
  /\ UNCHANGED authCalls

\* The login / signup form is submitted
HandleSubmit ==
  /\ AuthStays
  /\ auth.mode \in {"login", "signup"}
  /\ ~auth.loading
  /\ \A f \in Visible(auth.mode) : auth[f] # ""
  /\ IF auth.mode = "signup" /\ auth.password # auth.confirmPassword
       THEN /\ auth' = [auth EXCEPT !.error = "Passwords do not match",
                                    !.success = ""]
            /\ UNCHANGED authCalls
       ELSE /\ AuthRoom
            /\ auth' = [auth EXCEPT !.error = "", !.success = "",
                                    !.loading = TRUE]
            /\ authCalls' = Put(authCalls, AuthCall("submit"))

\* POST /token answers with a token; the handler goes on to GET /users/me
LoginOk(c) ==
  /\ InAuth
  /\ c \in AuthPending
  /\ c.op = "submit"
  /\ c.mode = "login"
  /\ lsToken' = TRUE
  /\ ctxToken' = TRUE
  /\ authCalls' = Put(Take(authCalls, c), [c EXCEPT !.op = "me"])
  /\ UNCHANGED <<auth, route, lsRoles>>

\* POST /users/register succeeds: setSuccess(...); switchMode('login')
SignupOk(c) ==
  /\ AuthStays
  /\ c \in AuthPending
  /\ c.op = "submit"
  /\ c.mode = "signup"
  /\ auth' = [Cleared([auth EXCEPT
                         !.success = "Signup successful - please sign in."],
                      "login")
                EXCEPT !.loading = FALSE]
  /\ authCalls' = Take(authCalls, c)

\* The request is rejected or answers without success
SubmitFail(c) ==
  /\ AuthStays
  /\ c \in AuthPending
  /\ c.op = "submit"
  /\ auth' = [auth EXCEPT !.error = "Request failed", !.loading = FALSE]
  /\ authCalls' = Take(authCalls, c)

\* GET /users/me answers with body me: roles stored, then navigate
MeOk(c, me) ==
  /\ route = "/"
  /\ c \in AuthPending
  /\ c.op = "me"
  /\ lsRoles' = RolesJson(RolesOf(me))
  /\ GoTo(IF "admin" \in RolesOf(me) THEN "/admin" ELSE "/chat")
  /\ chats' = <<>>
  /\ messages' = <<>>
  /\ currentId' = NoId
  /\ mePending' = ("admin" \notin RolesOf(me))
  /\ UNCHANGED <<lsToken, ctxToken, srvChats, srvMsgs, sends, ops>>

\* GET /users/me is rejected or its body is not JSON
MeFail(c) ==
  /\ AuthStays
  /\ c \in AuthPending
  /\ c.op = "me"
  /\ auth' = [auth EXCEPT !.error = "Request failed", !.loading = FALSE]
  /\ authCalls' = Take(authCalls, c)

\* 'Send code' of the forgot form, or 'Resend code' of the verify form
RequestReset ==
  /\ AuthStays
  /\ \/ auth.mode = "forgot" /\ ~auth.loading /\ auth.email # ""
     \/ auth.mode = "verify"
  /\ IF auth.email = ""
       THEN /\ auth' = [auth EXCEPT !.error = "Enter your account email",
                                    !.success = ""]
            /\ UNCHANGED authCalls
       ELSE /\ AuthRoom
            /\ auth' = [auth EXCEPT !.error = "", !.success = "",
                                    !.loading = TRUE]
            /\ authCalls' = Put(authCalls, AuthCall("requestReset"))

\* POST /auth/request-reset answers, with a success status or not
RequestResetAnswered(c, ok) ==
  /\ AuthStays
  /\ c \in AuthPending
  /\ c.op = "requestReset"
  /\ auth' = [auth EXCEPT !.success = "Code sent", !.mode = "verify",
                          !.loading = FALSE]
  /\ authCalls' = Take(authCalls, c)

\* The request is rejected
RequestResetThrow(c) ==
  /\ AuthStays
  /\ c \in AuthPending
  /\ c.op = "requestReset"
  /\ auth' = [auth EXCEPT !.error = "Failed to request reset.",
                          !.loading = FALSE]
  /\ authCalls' = Take(authCalls, c)

\* The verify form is submitted
VerifyResetCode ==
  /\ AuthStays
  /\ auth.mode = "verify"
  /\ ~auth.loading
  /\ Len(auth.code) >= 6
  /\ AuthRoom
  /\ auth' = [auth EXCEPT !.error = "", !.success = "", !.loading = TRUE]
  /\ authCalls' = Put(authCalls, AuthCall("verify"))

\* POST /auth/verify-reset-code answers { valid }
VerifyAnswered(c, valid) ==
  /\ AuthStays
  /\ c \in AuthPending
  /\ c.op = "verify"
  /\ auth' = IF valid
               THEN [auth EXCEPT !.success = "Code verified", !.mode = "reset",
                                 !.loading = FALSE]
               ELSE [auth EXCEPT !.error = "Invalid or expired code.",
                                 !.loading = FALSE]
  /\ authCalls' = Take(authCalls, c)

\* The reset form is submitted
DoResetPassword ==
  /\ AuthStays
  /\ auth.mode = "reset"
  /\ ~auth.loading
  /\ auth.newPw # <<>>
  /\ auth.newPw2 # <<>>
  /\ IF Len(auth.newPw) < 8
       THEN /\ auth' = [auth EXCEPT !.error = "Password too short",
                                    !.success = ""]
            /\ UNCHANGED authCalls
       ELSE IF auth.newPw # auth.newPw2
         THEN /\ auth' = [auth EXCEPT !.error = "Passwords do not match",
                                      !.success = ""]
              /\ UNCHANGED authCalls
         ELSE /\ AuthRoom
              /\ auth' = [auth EXCEPT !.error = "", !.success = "",
                                      !.loading = TRUE]
              /\ authCalls' = Put(authCalls, AuthCall("reset"))

\* POST /auth/reset-password answers, with a success status or not:
\* setSuccess(...); switchMode('login')
ResetAnswered(c, ok) ==
  /\ AuthStays
  /\ c \in AuthPending
  /\ c.op = "reset"
  /\ auth' = [Cleared([auth EXCEPT
                         !.success = "Password updated. Please sign in."],
                      "login")
                EXCEPT !.loading = FALSE]
  /\ authCalls' = Take(authCalls, c)

\* The request is rejected
ResetThrow(c) ==
  /\ AuthStays
  /\ c \in AuthPending
  /\ c.op = "reset"
  /\ auth' = [auth EXCEPT !.error = "Reset failed.", !.loading = FALSE]
  /\ authCalls' = Take(authCalls, c)

(***************************************************************************)
(* Docs, the documents page of AdminDashboard.  load() reads page, q and   *)
(* tag from the render its caller belongs to: a handler that calls         *)
(* setPage(1) and then load() sends the request for the page shown when    *)
(* the handler started, and the effect on [page] sends another one once    *)
(* the page number has changed.  Answers arrive in any order.              *)
(***************************************************************************)

\* Most listDocs requests awaiting an answer at a time
MaxDocCalls == 2

\* const pageSize = 20
PageSize == 20

\* Documents the backend stores, numbered in listing order
NumDocs == 41

\* Values typed into the filters
Queries == {"", "a"}
Tags == {"", "t"}

\* AdminDashboard is rendered and stays
DashboardMounted == route = "/admin" /\ RedirectTarget("/admin") = "none"

\* The documents matching the filters, in listing order
Matching(q, tag) ==
  LET lo == IF tag = "t" THEN 30 ELSE 1
      hi == IF q = "a" THEN 21 ELSE NumDocs
  IN  [i \in 1..(hi - lo + 1) |-> lo + i - 1]

\* GET /docs?q=&tag=&skip=&limit= : { items, total }
ListDocs(q, tag, skip, limit) ==
  [items |-> SubSeq(Matching(q, tag), skip + 1,
                    Min(skip + limit, Len(Matching(q, tag)))),
   total |-> Len(Matching(q, tag))]

\* load() run in a render whose page is p: the request it sends
LoadCall(p) ==
  [q |-> docs.q, tag |-> docs.tag, skip |-> (p - 1) * PageSize]

DocRoom(n) == BagCardinality(docCalls) + n <= MaxDocCalls

\* Docs is shown; nothing outside it changes
InDocs ==
  /\ DashboardMounted
  /\ UNCHANGED <<chats, currentId, messages, loadingChats, streaming, error,
                 mePending, ex, calls, srvChats, srvMsgs, sends, ops>>
  /\ UNCHANGED <<route, lsToken, lsRoles, ctxToken, auth, authCalls,
                 con, conCalls, srvReplies>>

\* The effect on [page] after the first render
DocsMount ==
  /\ InDocs
  /\ docs.last = "init"
  /\ docs' = [docs EXCEPT !.error = "", !.loading = TRUE, !.last = "mount"]
  /\ docCalls' = Put(docCalls, LoadCall(docs.page))

\* onChange of a filter field
DocsType(f, v) ==
  /\ InDocs
  /\ docs.last # "init"
  /\ \/ f = "q" /\ v \in Queries
     \/ f = "tag" /\ v \in Tags
  /\ docs[f] # v
  /\ docs' = [docs EXCEPT ![f] = v, !.last = "type"]
  /\ UNCHANGED docCalls

\* Refresh, Apply, or Enter in a filter field: setPage(1); load()
ResetPage(how) ==
  /\ InDocs
  /\ docs.last # "init"
  /\ how \in {"refresh", "apply", "enter"}
  /\ DocRoom(IF docs.page = 1 THEN 1 ELSE 2)
  /\ docs' = [docs EXCEPT !.page = 1, !.error = "", !.loading = TRUE,
                          !.last = how]
  /\ docCalls' =
       IF docs.page = 1
         THEN Put(docCalls, LoadCall(docs.page))
         ELSE Put(Put(docCalls, LoadCall(docs.page)), LoadCall(1))

\* Next: setPage(p => p + 1), then the effect on [page]
NextPage ==
  /\ InDocs
  /\ ~docs.loading
  /\ docs.page * PageSize < docs.total
  /\ DocRoom(1)
  /\ docs' = [docs EXCEPT !.page = @ + 1, !.error = "", !.loading = TRUE,
                          !.last = "page"]
  /\ docCalls' = Put(docCalls, LoadCall(docs.page + 1))

\* Prev: setPage(p => Math.max(1, p - 1)), then the effect on [page]
PrevPage ==
  /\ InDocs
  /\ ~docs.loading
  /\ docs.page > 1
  /\ DocRoom(1)
  /\ docs' = [docs EXCEPT !.page = IF @ - 1 > 1 THEN @ - 1 ELSE 1,
                          !.error = "", !.loading = TRUE, !.last = "page"]
  /\ docCalls' = Put(docCalls, LoadCall(IF docs.page - 1 > 1
                                          THEN docs.page - 1 ELSE 1))

\* listDocs answers
ListOk(c) ==
  /\ InDocs
  /\ c \in BagToSet(docCalls)
  /\ docs' = [docs EXCEPT
                !.items = ListDocs(c.q, c.tag, c.skip, PageSize).items,
                !.total = ListDocs(c.q, c.tag, c.skip, PageSize).total,
                !.loading = FALSE]
  /\ docCalls' = Take(docCalls, c)

\* listDocs throws
ListFail(c) ==
  /\ InDocs
  /\ c \in BagToSet(docCalls)
  /\ docs' = [docs EXCEPT !.error = "Failed to load documents",
                          !.items = <<>>, !.total = 0, !.loading = FALSE]
  /\ docCalls' = Take(docCalls, c)

(***************************************************************************)
(* ChatConsole, the chat page of AdminDashboard.  Each fetcher applies its *)
(* answer with a plain setter, whatever is selected when it arrives.       *)
(***************************************************************************)

\* Most requests of ChatConsole awaiting an answer at a time
MaxConCalls == 2

\* Most replies the backend stores
MaxReplies == 1

\* Values typed into the reply box
ReplyTexts == {<<>>, <<32>>, <<32, 104>>}

\* GET /admin/chats/{id}/messages
ConMessages(id) ==
  <<[chat |-> id, text |-> <<115>>]>>
    \o [i \in 1..Len(srvReplies[id]) |-> [chat |-> id, text |-> srvReplies[id][i]]]

ConCall(op, id, text) == [op |-> op, id |-> id, text |-> text]

ConPending == BagToSet(conCalls)

ConRoom == BagCardinality(conCalls) < MaxConCalls

\* ChatConsole is shown; nothing outside it changes
InConsole ==
  /\ DashboardMounted
  /\ UNCHANGED <<chats, currentId, messages, loadingChats, streaming, error,
                 mePending, ex, calls, srvChats, srvMsgs, sends, ops>>
  /\ UNCHANGED <<route, lsToken, lsRoles, ctxToken, auth, authCalls,
                 docs, docCalls>>

\* The mount effect: loadUsers()
ConsoleMount ==
  /\ InConsole
  /\ con.last = "init"
  /\ con' = [con EXCEPT !.last = "mount"]
  /\ conCalls' = Put(conCalls, ConCall("users", 0, <<>>))
  /\ UNCHANGED srvReplies

LoadUsersOk(c) ==
  /\ InConsole
  /\ c \in ConPending
  /\ c.op = "users"
  /\ con' = [con EXCEPT !.users = ConUsers]
  /\ conCalls' = Take(conCalls, c)
  /\ UNCHANGED srvReplies

LoadUsersFail(c) ==
  /\ InConsole
  /\ c \in ConPending
  /\ c.op = "users"
  /\ conCalls' = Take(conCalls, c)
  /\ UNCHANGED <<con, srvReplies>>

\* The user select changes to u (0 is '- choose -'), then the effect on
\* [selectedUser]
SelectUser(u) ==
  /\ InConsole
  /\ u = 0 \/ \E i \in 1..Len(con.users) : con.users[i] = u
  /\ u # con.selectedUser
  /\ IF u # 0
       THEN /\ ConRoom
            /\ con' = [con EXCEPT !.selectedUser = u, !.selectedChat = 0,
                                  !.messages = <<>>, !.last = "user"]
            /\ conCalls' = Put(conCalls, ConCall("chats", u, <<>>))
       ELSE /\ con' = [con EXCEPT !.selectedUser = 0, !.chats = <<>>,
                                  !.selectedChat = 0, !.messages = <<>>,
                                  !.last = "user"]
            /\ UNCHANGED conCalls
  /\ UNCHANGED srvReplies

\* loadChats: setChats(await res.json())
LoadChatsOk(c) ==
  /\ InConsole
  /\ c \in ConPending
  /\ c.op = "chats"
  /\ con' = [con EXCEPT !.chats = ConChatsOf(c.id)]
  /\ conCalls' = Take(conCalls, c)
  /\ UNCHANGED srvReplies

\* loadChats throws; the list stays
LoadChatsFail(c) ==
  /\ InConsole
  /\ c \in ConPending
  /\ c.op = "chats"
  /\ conCalls' = Take(conCalls, c)
  /\ UNCHANGED <<con, srvReplies>>

\* A click on the i-th chat listed, then the effect on [selectedChat]
SelectChat(i) ==
  /\ InConsole
  /\ i \in 1..Len(con.chats)
  /\ con.chats[i] # con.selectedChat
  /\ ConRoom
  /\ con' = [con EXCEPT !.selectedChat = con.chats[i], !.last = "chat"]
  /\ conCalls' = Put(conCalls, ConCall("messages", con.chats[i], <<>>))
  /\ UNCHANGED srvReplies

\* loadMessages called by the effect: setMessages(data)
LoadMessagesOk(c) ==
  /\ InConsole
  /\ c \in ConPending
  /\ c.op = "messages"
  /\ con' = [con EXCEPT !.messages = ConMessages(c.id)]
  /\ conCalls' = Take(conCalls, c)
  /\ UNCHANGED srvReplies

LoadMessagesFail(c) ==
  /\ InConsole
  /\ c \in ConPending
  /\ c.op = "messages"
  /\ conCalls' = Take(conCalls, c)
  /\ UNCHANGED <<con, srvReplies>>

\* onChange of the reply box (disabled while sending)
TypeReply(v) ==
  /\ InConsole
  /\ ~con.sending
  /\ v \in ReplyTexts
  /\ v # con.replyText
  /\ con' = [con EXCEPT !.replyText = v, !.last = "type"]
  /\ UNCHANGED <<conCalls, srvReplies>>

\* Enter in the reply box, or the Send button: sendReply()
SendReply ==
  /\ InConsole
  /\ ~con.sending
  /\ IF Trim(con.replyText) = <<>> \/ con.selectedChat = 0
       THEN /\ con' = [con EXCEPT !.last = "send"]
            /\ UNCHANGED conCalls
       ELSE /\ ConRoom
            /\ Len(srvReplies[con.selectedChat]) < MaxReplies
            /\ con' = [con EXCEPT !.sending = TRUE, !.last = "send"]
            /\ conCalls' = Put(conCalls, ConCall("reply", con.selectedChat,
                                                 Trim(con.replyText)))
  /\ UNCHANGED srvReplies

\* POST reply is accepted: setReplyText(""), then loadMessages(selectedChat)
ReplyOk(c) ==
  /\ InConsole
  /\ c \in ConPending
  /\ c.op = "reply"
  /\ srvReplies' = [srvReplies EXCEPT ![c.id] = Append(@, c.text)]
  /\ con' = [con EXCEPT !.replyText = <<>>]
  /\ conCalls' = Put(Take(conCalls, c), [c EXCEPT !.op = "reload"])

\* Variant: without the finally
ReplyFailKeepsSending(c) ==
  /\ InConsole
  /\ c \in ConPending
  /\ c.op = "reply"
  /\ conCalls' = Take(conCalls, c)
  /\ UNCHANGED <<con, srvReplies>>

\* POST reply is rejected or not ok: finally setSending(false)
ReplyFail(c) ==
  /\ InConsole
  /\ c \in ConPending
  /\ c.op = "reply"
  /\ con' = [con EXCEPT !.sending = FALSE]
  /\ conCalls' = Take(conCalls, c)
  /\ UNCHANGED srvReplies

\* The reload of sendReply answers: setMessages(data), setSending(false)
ReloadOk(c) ==
  /\ InConsole
  /\ c \in ConPending
  /\ c.op = "reload"
  /\ con' = [con EXCEPT !.messages = ConMessages(c.id), !.sending = FALSE]
  /\ conCalls' = Take(conCalls, c)
  /\ UNCHANGED srvReplies

\* The reload of sendReply throws: finally setSending(false)
ReloadFail(c) ==
  /\ InConsole
  /\ c \in ConPending
  /\ c.op = "reload"
  /\ con' = [con EXCEPT !.sending = FALSE]
  /\ conCalls' = Take(conCalls, c)
  /\ UNCHANGED srvReplies

Next ==
  \/ MeSettled
  \/ \E c \in Pending : FetchChatsOk(c)
  \/ \E c \in Pending : FetchChatsFail(c)
  \/ \E i \in 1..MaxChats : ClickChat(i)
  \/ \E c \in Pending : LoadChatOk(c)
  \/ \E c \in Pending : LoadChatFail(c)
  \/ NewChat
  \/ \E c \in Pending : CreateChatOk(c)
  \/ \E c \in Pending : CreateChatFail(c)
  \/ \E raw \in Inputs : ChatInputSend(raw)
  \/ \E e \in Slots : StreamOk(e)
  \/ \E e \in Slots : StreamNotOk(e)
  \/ \E e \in Slots : StreamThrow(e)
  \/ \E e \in Slots : ReadChunk(e)
  \/ \E e \in Slots : ReadDone(e)
  \/ \E e \in Slots : ReadThrow(e)
  \/ HandleLogout
  \/ Redirect
  \/ \E r \in Protected : EnterUrl(r)
  \/ \E r \in Protected : PopState(r)

Spec == Init /\ [][Next]_vars

----------------------------------------------------------------------------
(* The sidebar on its own: list refresh, selection, rename and New chat,   *)
(* with up to two conversations stored at the start.                       *)
SidebarInit ==
  /\ \E rows \in {OneChat, TwoChats} : LayoutInit(rows)
  /\ SessionInit("user")

SidebarNext ==
  \/ MeSettled
  \/ \E c \in Pending : FetchChatsOk(c)
  \/ \E c \in Pending : FetchChatsFail(c)
  \/ \E i \in 1..MaxChats : ClickChat(i)
  \/ \E i \in 1..MaxChats, t \in Titles : DoubleClickChat(i, t)
  \/ \E c \in Pending : RenameChatOk(c)
  \/ \E c \in Pending : RenameChatFail(c)
  \/ \E c \in Pending : LoadChatOk(c)
  \/ \E c \in Pending : LoadChatFail(c)
  \/ NewChat
  \/ \E c \in Pending : CreateChatOk(c)
  \/ \E c \in Pending : CreateChatFail(c)

SidebarSpec == SidebarInit /\ [][SidebarNext]_vars

(* The exchange on its own, with a text longer than the title limit among  *)
(* the inputs.                                                             *)
ExchangeInit ==
  /\ LayoutInit(NoChats)
  /\ SessionInit("user")

ExchangeNext ==
  \/ MeSettled
  \/ \E c \in Pending : FetchChatsOk(c)
  \/ \E c \in Pending : FetchChatsFail(c)
  \/ \E c \in Pending : LoadChatOk(c)
  \/ \E c \in Pending : LoadChatFail(c)
  \/ \E c \in Pending : CreateChatOk(c)
  \/ \E c \in Pending : CreateChatFail(c)
  \/ \E raw \in LongInputs : ChatInputSend(raw)
  \/ \E e \in Slots : StreamOk(e)
  \/ \E e \in Slots : StreamNotOk(e)
  \/ \E e \in Slots : StreamThrow(e)
  \/ \E e \in Slots : ReadChunk(e)
  \/ \E e \in Slots : ReadDone(e)
  \/ \E e \in Slots : ReadThrow(e)

ExchangeSpec == ExchangeInit /\ [][ExchangeNext]_vars

(***************************************************************************)
(* The sign-in page: a signed-out visitor at '/'.                          *)
(***************************************************************************)
AuthInit ==
  /\ LayoutInit(NoChats)
  /\ route = "/"
  /\ lsToken = FALSE
  /\ ctxToken = FALSE
  /\ lsRoles = "none"
  /\ mePending = FALSE

AuthNext ==
  \/ \E next \in {"login", "signup", "forgot"} : SwitchMode(next)
  \/ \E f \in Visible(auth.mode) : \E v \in Typed(f) : TypeField(f, v)
  \/ HandleSubmit
  \/ \E c \in AuthPending : LoginOk(c)
  \/ \E c \in AuthPending : SignupOk(c)
  \/ \E c \in AuthPending : SubmitFail(c)
  \/ \E c \in AuthPending : \E me \in Mes : MeOk(c, me)
  \/ \E c \in AuthPending : MeFail(c)
  \/ RequestReset
  \/ \E c \in AuthPending : \E ok \in BOOLEAN : RequestResetAnswered(c, ok)
  \/ \E c \in AuthPending : RequestResetThrow(c)
  \/ VerifyResetCode
  \/ \E c \in AuthPending : \E valid \in BOOLEAN : VerifyAnswered(c, valid)
  \/ DoResetPassword
  \/ \E c \in AuthPending : \E ok \in BOOLEAN : ResetAnswered(c, ok)
  \/ \E c \in AuthPending : ResetThrow(c)
  \/ HandleLogout
  \/ Redirect
  \/ \E r \in Protected : PopState(r)

AuthSpec == AuthInit /\ [][AuthNext]_vars

(***************************************************************************)
(* The documents page: an admin has opened it in the dashboard.            *)
(***************************************************************************)
DocsInit == LayoutInit(NoChats) /\ SessionInit("admin")

DocsNext ==
  \/ DocsMount
  \/ \E f \in {"q", "tag"} : \E v \in Queries \cup Tags : DocsType(f, v)
  \/ \E how \in {"refresh", "apply", "enter"} : ResetPage(how)
  \/ NextPage
  \/ PrevPage
  \/ \E c \in BagToSet(docCalls) : ListOk(c)
  \/ \E c \in BagToSet(docCalls) : ListFail(c)

DocsSpec == DocsInit /\ [][DocsNext]_vars

(***************************************************************************)
(* The admin chat console: an admin has opened it in the dashboard.        *)
(***************************************************************************)
ConsoleInit == LayoutInit(NoChats) /\ SessionInit("admin")

ConsoleNext ==
  \/ ConsoleMount
  \/ \E c \in ConPending : LoadUsersOk(c)
  \/ \E c \in ConPending : LoadUsersFail(c)
  \/ \E u \in 0..2 : SelectUser(u)
  \/ \E c \in ConPending : LoadChatsOk(c)
  \/ \E c \in ConPending : LoadChatsFail(c)
  \/ \E i \in 1..Len(con.chats) : SelectChat(i)
  \/ \E c \in ConPending : LoadMessagesOk(c)
  \/ \E c \in ConPending : LoadMessagesFail(c)
  \/ \E v \in ReplyTexts : TypeReply(v)
  \/ SendReply
  \/ \E c \in ConPending : ReplyOk(c)
  \/ \E c \in ConPending : ReplyFail(c)
  \/ \E c \in ConPending : ReloadOk(c)
  \/ \E c \in ConPending : ReloadFail(c)

ConsoleSpec == ConsoleInit /\ [][ConsoleNext]_vars

----------------------------------------------------------------------------
(* Properties *)

\* The Thread is `base` followed by the messages `tail`
ThreadIs(base, tail) == messages = base \o tail

\* Number of fetchChats calls in flight in bag b
FetchCalls(b) ==
  BagCardinality([c \in {d \in BagToSet(b) : d.op = "fetchChats"} |-> b[c]])

\* Frame e takes in a chunk in this step
ChunkStep(e) ==
  /\ ex[e].pc = "reading"
  /\ ex'[e].pc = "reading"
  /\ Len(ex'[e].rest) < Len(ex[e].rest)

\* C1: once another conversation B is selected while an exchange on A is
\* still reading its stream and the Thread holds B's stored messages,
\* applying a chunk of A's stream changes no message of the displayed
\* Thread: it still holds exactly B's stored messages.
C1_ChunksDiscarded ==
  [][\A e \in Slots :
       (ChunkStep(e) /\ currentId \in ChatIds /\ currentId # ex[e].id
          /\ messages = srvMsgs[currentId])
         => messages' = messages]_vars

C4_CreateFailure ==
  [][\A e \in Slots :
       (ex[e].pc = "creating" /\ ex'[e].pc \notin {"creating", "idle"}
          /\ srvChats' = srvChats)
         => /\ messages' = messages
            /\ chats' = chats
            /\ currentId' = currentId
            /\ ex'[e].pc = "ended"
            /\ ex'[e].nStream = 0
            /\ error' # ""
            /\ streaming' = FALSE]_vars

C4_Witness ==
  \E e \in Slots :
    /\ Ended(e) /\ ex[e].outcome = "createFailed"
    /\ messages = ex[e].base /\ currentId = NoId
    /\ error = "Failed to create chat" /\ ~streaming

\* C5 as stated: every step that ends an exchange issues a list refresh.
C5_AlwaysRefresh ==
  [][\A e \in Slots :
       (Active(e) /\ ex'[e].pc = "ended")
         => FetchCalls(calls') = FetchCalls(calls) + 1]_vars

\* C5 amended: the step that ends an exchange issues a list refresh
\* (GET /chats) exactly when the stream has completed; an exchange that
\* ends by a failure (creation failed, streaming response not successful,
\* transport error) issues none.
C5_RefreshOnCompletion ==
  [][\A e \in Slots :
       (Active(e) /\ ex'[e].pc = "ended")
         => FetchCalls(calls') =
              FetchCalls(calls) + (IF ex'[e].outcome = "done" THEN 1 ELSE 0)]_vars

C5_Witness ==
  \E e \in Slots :
    /\ Ended(e) /\ ex[e].outcome = "done"
    /\ \E c \in Pending : c.op = "fetchChats" /\ c.cur = ex[e].cur

\* C6: a refresh response applied while a conversation is selected neither
\* changes the selection nor starts a Thread load.
C6_RefreshKeepsSelection ==
  [][\A c \in Pending :
       (FetchChatsOk(c) /\ currentId # NoId)
         => /\ currentId' = currentId
            /\ \A d \in BagToSet(calls') : d.op = "loadChat" => d \in Pending]_vars

\* C7: after an exchange whose requests all succeeded has ended and its
\* refresh (with any Thread load it started) has settled, the Thread of
\* the exchange's conversation ends with the user Message and the
\* assistant Message carrying the full streamed text.
C7_FullExchange ==
  \A e \in Slots :
    (Ended(e) /\ ex[e].outcome = "done" /\ calls = EmptyBag /\ error = ""
       /\ currentId = ex[e].id)
      => /\ Len(messages) >= 2
         /\ messages[Len(messages) - 1] = UserMsg(ex[e].text)
         /\ messages[Len(messages)] = AssistantMsg(Decode(ex[e].reply))

\* C8: when the stream has ended undisturbed, the assistant Message holds
\* the text of the whole body, wherever the chunk boundaries fell (the
\* content a delivery in one chunk yields).
C8_BoundaryIndependent ==
  \A e \in Slots :
    (Ended(e) /\ ex[e].outcome = "done" /\ ~ex[e].dist)
      => /\ Len(messages) >= 1
         /\ messages[Len(messages)] = AssistantMsg(Decode(ex[e].reply))

C10_StreamingEnds ==
  (\A e \in Slots : ~Active(e)) => ~streaming

\* A step in which a backend call of createChat, loadChat, fetchChats or
\* of the streaming step of sendMessage fails
FailureStep ==
  \/ \E c \in Pending : FetchChatsFail(c) \/ LoadChatFail(c) \/ CreateChatFail(c)
  \/ \E e \in Slots : StreamNotOk(e) \/ StreamThrow(e) \/ ReadThrow(e)

\* C11: every failure of a backend call of createChat, loadChat, fetchChats
\* or the streaming step is caught inside the operation and leaves a
\* non-empty error string; no exchange ends by an uncaught rejection.
C11_FailuresCaught ==
  [][FailureStep =>
       /\ error' # ""
       /\ \A e \in Slots :
            (Active(e) /\ ex'[e].pc = "ended")
              => ex'[e].outcome \notin {"fetchThrew", "readThrew"}]_vars

\* C12: an exchange whose requests all succeeded has issued the create
\* request once if no conversation was selected and never otherwise, the
\* streaming request once and the list refresh once; no exchange issues
\* any of its requests more than once, so none is retried after a failure.
C12_RequestCounts ==
  \A e \in Slots :
    /\ ex[e].nCreate <= 1 /\ ex[e].nStream <= 1 /\ ex[e].nRefresh <= 1
    /\ (Ended(e) /\ ex[e].outcome = "done")
         => /\ ex[e].nCreate = (IF ex[e].cur = NoId THEN 1 ELSE 0)
            /\ ex[e].nStream = 1
            /\ ex[e].nRefresh = 1
    /\ (Ended(e) /\ ex[e].outcome = "createFailed")
         => ex[e].nCreate = 1 /\ ex[e].nStream = 0 /\ ex[e].nRefresh = 0
    /\ (Ended(e) /\ ex[e].outcome \in {"notOk", "fetchThrew", "readThrew"})
         => ex[e].nStream = 1 /\ ex[e].nRefresh = 0

C12_Witness ==
  \E e \in Slots :
    /\ Ended(e) /\ ex[e].outcome = "done" /\ ex[e].cur = NoId
    /\ ex[e].nCreate = 1 /\ ex[e].nStream = 1 /\ ex[e].nRefresh = 1

\* C13: when the successful response of loadChat(id) is applied the Thread
\* becomes exactly the backend's stored message list for id, whatever the
\* Thread held before; the result of a load therefore depends only on the
\* stored data, not on the loads that preceded it.
C13_LoadReplaces ==
  [][\A c \in Pending : LoadChatOk(c) => messages' = srvMsgs[c.id]]_vars

C13_Witness ==
  \E e \in Slots :
    /\ Ended(e) /\ ex[e].outcome = "done" /\ ex[e].dist
    /\ ex[e].id # currentId /\ currentId \in ChatIds
    /\ messages = srvMsgs[currentId] /\ messages # <<>>
    /\ \A c \in Pending : c.op # "loadChat"

\* C14: when the successful response of a list refresh is applied, the
\* refresh issued at the end of a stream included, the in-memory list
\* becomes exactly the list the backend returned: same rows, same order,
\* the backend's titles.
C14_ListReplaced ==
  [][\A c \in Pending : FetchChatsOk(c) => chats' = srvChats]_vars

C14_Witness ==
  \E e \in Slots :
    /\ Ended(e) /\ ex[e].outcome = "done" /\ ex[e].cur = NoId
    /\ ex[e].nRefresh = 1
    /\ \A c \in Pending : c.op # "fetchChats"
    /\ chats = srvChats
    /\ \E i \in 1..Len(chats) :
         /\ chats[i].id = ex[e].id
         /\ chats[i].title = AutoTitle(ex[e].text)
         /\ chats[i].title # Slice(ex[e].text, TitleLen)

\* Number of loadChat calls in flight in bag b
LoadCalls(b) ==
  BagCardinality([c \in {d \in BagToSet(b) : d.op = "loadChat"} |-> b[c]])

\* C15: when the successful response of a list refresh is applied while no
\* conversation is selected, a non-empty returned list makes its first row
\* the selected conversation and starts the load of its Thread; an empty
\* returned list leaves the selection empty and starts no load.
C15_AutoSelect ==
  [][\A c \in Pending :
       (FetchChatsOk(c) /\ currentId = NoId)
         => IF srvChats # <<>>
            THEN /\ currentId' = srvChats[1].id
                 /\ LoadCalls(calls') = LoadCalls(calls) + 1
            ELSE /\ currentId' = NoId
                 /\ LoadCalls(calls') = LoadCalls(calls)]_vars

C15_Witness ==
  /\ ops = 0 /\ sends = 0
  /\ chats = srvChats /\ chats # <<>>
  /\ currentId = chats[1].id
  /\ messages = <<>>
  /\ \E c \in Pending : c.op = "loadChat" /\ c.id = currentId

\* C16: in every sendMessage exchange the user Message is appended only
\* once the conversation exists (the captured selection, or the id a
\* successful create returned), the streaming request is issued in the
\* step that appends the user Message and not before, and the list refresh
\* is issued only in the step in which the stream's end is read.
C16_StrictSequence ==
  [][\A e \in Slots :
       /\ (ex'[e].pc = "requesting" /\ ex[e].pc # "requesting")
            => /\ \E i \in 1..Len(srvChats') : srvChats'[i].id = ex'[e].id
               /\ messages' # <<>>
               /\ messages'[Len(messages')] = UserMsg(ex'[e].text)
               /\ ex'[e].nStream = 1 /\ ex'[e].nRefresh = 0
               /\ IF ex[e].pc = "creating"
                  THEN ex'[e].cur = NoId /\ ex'[e].nCreate = 1
                  ELSE /\ ex'[e].cur = currentId /\ currentId # NoId
                       /\ ex'[e].id = currentId /\ ex'[e].nCreate = 0
       /\ (ex'[e].pc = "creating")
            => /\ ex'[e].nStream = 0 /\ ex'[e].nRefresh = 0
               /\ ex[e].pc # "creating" => messages' = messages
       /\ (ex'[e].pc \in {"requesting", "reading"}) => ex'[e].nRefresh = 0
       /\ (ex'[e].nRefresh >= 1)
            => /\ ex'[e].pc = "ended" /\ ex'[e].outcome = "done"
               /\ ex'[e].rest = <<>> /\ ex'[e].nStream = 1]_vars

C16_Witness ==
  \E e \in Slots :
    /\ Ended(e) /\ ex[e].outcome = "done" /\ ex[e].cur = NoId /\ ~ex[e].dist
    /\ ex[e].nCreate = 1 /\ ex[e].nStream = 1 /\ ex[e].nRefresh = 1
    /\ ThreadIs(ex[e].base,
                <<UserMsg(ex[e].text), AssistantMsg(Decode(ex[e].reply))>>)

\* C19: while an exchange reads its stream and the selection was never
\* changed since it began, each applied chunk leaves the in-progress
\* assistant Message with the concatenation of the decoded chunks received
\* so far as its content, and changes nothing but the last element of the
\* Thread: its length, its other messages, the selection and the
\* conversation list are as before.
C19_ChunkFrame ==
  [][\A e \in Slots :
       (ChunkStep(e) /\ ~ex[e].dist)
         => LET n == Len(messages)
                k == Len(ex[e].rest) - Len(ex'[e].rest)
            IN /\ n > 0
               /\ Len(messages') = n
               /\ \A i \in 1..(n - 1) : messages'[i] = messages[i]
               /\ ex'[e].acc = ex[e].acc \o Decode(SubSeq(ex[e].rest, 1, k))
               /\ messages'[n] = AssistantMsg(ex'[e].acc)
               /\ messages[n] = AssistantMsg(ex[e].acc)
               /\ currentId' = currentId
               /\ chats' = chats]_vars

C19_Witness ==
  \E e \in Slots :
    /\ ex[e].pc = "reading" /\ ~ex[e].dist
    /\ ex[e].acc # <<>> /\ ex[e].rest # <<>>
    /\ messages # <<>>
    /\ messages[Len(messages)] = AssistantMsg(ex[e].acc)

\* C17: the logout step leaves no token anywhere: the stored token, the
\* token held by the AuthProvider context and the stored roles are absent,
\* and the conversation list, the Thread and the selection are empty.
C17_LogoutClearsSession ==
  [][HandleLogout =>
       /\ ~lsToken' /\ ~ctxToken' /\ lsRoles' = "none"
       /\ chats' = <<>> /\ messages' = <<>> /\ currentId' = NoId]_vars

\* The path at which the chain of redirects that starts at path r comes to
\* rest, followed for at most n redirects
RECURSIVE Follow(_, _)
Follow(r, n) ==
  IF n = 0 \/ RedirectTarget(r) = "none" THEN r
  ELSE Follow(RedirectTarget(r), n - 1)

\* C18: whenever the stored token or the context token is absent, the
\* redirects that start at the current location (ProtectedRoute, the guard
\* effects of MyLayout and AdminDashboard with their target '/auth', the
\* catch-all route) end on the login page "/", where nothing redirects;
\* in particular no protected view stays rendered.
C18_NoTokenNoView ==
  (~lsToken \/ ~ctxToken)
    => /\ Follow(route, 3) = "/"
       /\ RedirectTarget("/") = "none"
       /\ ~LayoutMounted

C18_Witness ==
  /\ route \in Protected
  /\ ~lsToken
  /\ ctxToken
  /\ RedirectTarget(route) = "/auth"

\* Every character of s is white space
Blank(s) == \A i \in 1..Len(s) : IsSpace(s[i])

\* t is s without its leading and trailing white space
Trimmed(s, t) ==
  /\ t # <<>>
  /\ ~IsSpace(t[1]) /\ ~IsSpace(t[Len(t)])
  /\ \E a \in 0..(Len(s) - Len(t)) :
       /\ SubSeq(s, a + 1, a + Len(t)) = t
       /\ Blank(SubSeq(s, 1, a))
       /\ Blank(SubSeq(s, a + Len(t) + 1, Len(s)))

\* C20: a send of input that is empty or only white space issues no
\* request and leaves the Thread, the selection, the streaming flag and
\* every exchange as they are; a send of any other input starts a
\* sendMessage invocation whose text is the input without its leading and
\* trailing white space.
C20_BlankInputIgnored ==
  [][\A raw \in Inputs :
       ChatInputSend(raw)
         => IF Blank(raw)
            THEN UNCHANGED <<chats, currentId, messages, loadingChats,
                             streaming, error, ex, calls, srvChats, srvMsgs,
                             sends>>
            ELSE /\ sends' = sends + 1
                 /\ streaming'
                 /\ \E e \in Slots :
                      /\ ex[e].pc \in {"idle", "ended"}
                      /\ ex'[e].pc \in {"creating", "requesting"}
                      /\ Trimmed(raw, ex'[e].text)]_vars

C20_Witness ==
  /\ LayoutMounted
  /\ ops = 1 /\ sends = 0
  /\ mePending
  /\ calls = EmptyBag
  /\ \A e \in Slots : ex[e].pc = "idle"

\* t is the first n characters of s, all of s when s is shorter
FirstChars(t, s, n) ==
  /\ Len(t) = (IF Len(s) < n THEN Len(s) ELSE n)
  /\ \A i \in 1..Len(t) : t[i] = s[i]

\* C21: a sendMessage(text) that starts with no conversation selected
\* issues one create request whose title is the first 48 characters of
\* text (the whole text when shorter); when that request succeeds the new
\* conversation is put at the head of the list in front of the rows held
\* before, becomes the selected one, and is the conversation of the
\* exchange's streaming request.
C21_ProvisionalTitle ==
  [][\A e \in Slots :
       /\ (ex[e].pc # "creating" /\ ex'[e].pc = "creating")
            => \E c \in BagToSet(calls') :
                 /\ c.op = "createChat" /\ c.frame = e
                 /\ FirstChars(c.title, ex'[e].text, TitleLen)
                 /\ calls' = Put(calls, c)
       /\ (ex[e].pc = "creating" /\ ex'[e].pc = "requesting")
            => /\ chats' # <<>>
               /\ Tail(chats') = chats
               /\ FirstChars(chats'[1].title, ex[e].text, TitleLen)
               /\ \A i \in 1..Len(chats) : chats[i].id # chats'[1].id
               /\ currentId' = chats'[1].id
               /\ ex'[e].id = chats'[1].id
               /\ ex'[e].nStream = 1]_vars

C21_Witness ==
  \E e \in Slots :
    /\ ex[e].pc = "requesting" /\ ex[e].cur = NoId
    /\ Len(ex[e].text) > TitleLen
    /\ chats # <<>>
    /\ chats[1].id = ex[e].id
    /\ Len(chats[1].title) = TitleLen
    /\ currentId = ex[e].id

\* C22: when the backend accepts renameChat(id, title), the list keeps its
\* length and order, the entry whose id matches takes the title, every
\* other entry, the selection and the Thread are unchanged; when the call
\* fails or is rejected the list is unchanged.
C22_RenameFrame ==
  [][\A c \in Pending :
       /\ RenameChatOk(c)
            => /\ Len(chats') = Len(chats)
               /\ \A i \in 1..Len(chats) :
                    /\ chats'[i].id = chats[i].id
                    /\ chats[i].id = c.id => chats'[i].title = c.title
                    /\ chats[i].id # c.id => chats'[i] = chats[i]
               /\ currentId' = currentId
               /\ messages' = messages
       /\ RenameChatFail(c)
            => chats' = chats /\ currentId' = currentId
                 /\ messages' = messages]_vars

C22_Witness ==
  /\ Len(chats) = 2
  /\ chats = srvChats
  /\ \E i, j \in 1..2 :
       /\ chats[i].title = <<82>>
       /\ chats[j].title = StoredTitle
  /\ \A c \in Pending : c.op # "renameChat"

\* C23: when no loadChat call is in flight any more and none has failed,
\* the Thread holds the stored messages of the selected conversation, also
\* when loadChat calls for different conversations overlapped and were
\* answered in another order than they were issued.
C23_LastSelectedShown ==
  (/\ LoadCalls(calls) = 0
   /\ sends = 0
   /\ error = ""
   /\ currentId \in ChatIds
   /\ srvMsgs[currentId] # <<>>)
    => messages = srvMsgs[currentId]

(***************************************************************************)
(* AuthPage                                                                *)
(***************************************************************************)

\* The verify request of call c was built from the e-mail and the code that
\* component state a holds
VerifiedFor(c, a) == c.op = "verify" /\ c.email = a.email /\ c.code = a.code

(* C24: mode 'reset' is entered only from mode 'verify' and only by the    *)
(* answer valid = true to a check of the e-mail and the code the page      *)
(* holds when it enters 'reset'.                                           *)
C24_ResetOnlyVerified ==
  [][(auth.mode # "reset" /\ auth'.mode = "reset")
       => /\ auth.mode = "verify"
          /\ \E c \in AuthPending :
               /\ VerifyAnswered(c, TRUE)
               /\ VerifiedFor(c, auth')]_vars

(* C25: when the reset-request or the reset-password request is answered   *)
(* with a status other than success, the mode stays as it is and an error  *)
(* is set.                                                                 *)
C25_NonSuccessStays ==
  [][\A c \in AuthPending :
       (RequestResetAnswered(c, FALSE) \/ ResetAnswered(c, FALSE))
         => auth'.mode = auth.mode /\ auth'.error # ""]_vars

\* Component state a is the login form with empty fields
LoginFormCleared(a) == a = [Cleared(a, "login") EXCEPT !.success = a.success]

(* C26: when the handler of a successful signup, or of a successful        *)
(* password reset, has finished, the page is the empty login form and its  *)
(* success notice is the handler's (so not empty).                         *)
C26_NoticeAfterSuccess ==
  [][\A c \in AuthPending :
       /\ SignupOk(c)
            => /\ LoginFormCleared(auth')
               /\ ~auth'.loading
               /\ auth'.success = "Signup successful - please sign in."
       /\ ResetAnswered(c, TRUE)
            => /\ LoginFormCleared(auth')
               /\ ~auth'.loading
               /\ auth'.success = "Password updated. Please sign in."]_vars

(* C27: the answer of /users/me to a login stores the roles of its body    *)
(* (or ['admin'] / ['user'] after is_admin when the body has none) and     *)
(* navigates to '/admin' exactly when they include 'admin', else to        *)
(* '/chat'; and AdminDashboard, rendered for a signed-in user whose stored *)
(* roles lack 'admin', navigates to '/chat'.                               *)
C27_RoleRouting ==
  [][/\ \A c \in AuthPending : \A me \in Mes :
          MeOk(c, me)
            => /\ ParseRoles(lsRoles') =
                    (IF me.hasRoles THEN me.roles
                     ELSE IF me.is_admin THEN {"admin"} ELSE {"user"})
               /\ route' = "/admin" <=> "admin" \in ParseRoles(lsRoles')
               /\ route' = "/chat" <=> "admin" \notin ParseRoles(lsRoles')
     /\ (route' = "/admin" /\ lsToken' /\ ctxToken'
           /\ "admin" \notin ParseRoles(lsRoles'))
          => RedirectTarget("/admin")' = "/chat"]_vars

\* A login has led an admin to the dashboard, and the dashboard stays
C27_Witness ==
  /\ route = "/admin"
  /\ ops = 0
  /\ lsRoles = "admin,user"
  /\ RedirectTarget(route) = "none"

(***************************************************************************)
(* Docs                                                                    *)
(***************************************************************************)

(* C28: once every list request has answered after Refresh, Apply or Enter *)
(* in a filter field, with no failure shown, the page number is 1 and the  *)
(* items are the backend's page 1 (skip = 0) for the filters held; and the *)
(* page number is never below 1.                                           *)
C28_ResetShowsFirstPage ==
  /\ docs.page >= 1
  /\ (docCalls = EmptyBag /\ docs.error = ""
        /\ docs.last \in {"refresh", "apply", "enter"})
       => /\ docs.page = 1
          /\ docs.items = ListDocs(docs.q, docs.tag, 0, PageSize).items

(***************************************************************************)
(* ChatConsole                                                             *)
(***************************************************************************)

(* C29: once every request of the console has answered, the chats listed   *)
(* are those of the selected user (none when no user is selected) and the  *)
(* messages shown are those of the selected chat (none when no chat is     *)
(* selected).                                                              *)
C29_ConsoleShowsSelection ==
  conCalls = EmptyBag
    => /\ con.chats # <<>> => /\ con.selectedUser # 0
                              /\ con.chats = ConChatsOf(con.selectedUser)
       /\ con.messages # <<>> => /\ con.selectedChat # 0
                                 /\ con.messages = ConMessages(con.selectedChat)

\* A reply request, or the reload that follows it, is in flight
ReplyInFlight == \E c \in ConPending : c.op \in {"reply", "reload"}

(* C30: sendReply changes nothing when the trimmed text is empty or no     *)
(* chat is selected; otherwise sending is true exactly while the reply     *)
(* request or its reload is in flight, on success and on failure; and the  *)
(* reply text is emptied by the console only when the backend accepted the *)
(* reply.                                                                  *)
C30_SendReply ==
  [][/\ (SendReply /\ (Trim(con.replyText) = <<>> \/ con.selectedChat = 0))
          => /\ con' = [con EXCEPT !.last = "send"]
             /\ conCalls' = conCalls
             /\ srvReplies' = srvReplies
     /\ (SendReply /\ Trim(con.replyText) # <<>> /\ con.selectedChat # 0)
          => con'.sending
     /\ con'.sending <=> ReplyInFlight'
     /\ (con.replyText # <<>> /\ con'.replyText = <<>>)
          => \/ TypeReply(<<>>)
             \/ \E c \in ConPending : c.op = "reply" /\ ReplyOk(c)]_vars

\* A reply was accepted and reloaded: not sending, the box is empty
C30_Witness ==
  /\ \E id \in ConChatIds : srvReplies[id] # <<>>
  /\ ~con.sending
  /\ con.replyText = <<>>
  /\ conCalls = EmptyBag
  /\ con.last = "send"

====
